---- MODULE Spec2Model ----
(***************************************************************************)
(* Model of main.py: the UndirectedGraph adjacency structure and the       *)
(* synchronous best-response-dynamics engine contagion_brd.                *)
(*                                                                         *)
(* Node states are the strings of the source: "Y" (Untouched), "X"         *)
(* (Spreader) and "W" (Wise).  The threshold q is a rational <<num, den>>  *)
(* with den > 0; the source's  count / len(neighbors) >= q  is modelled by *)
(* the cross-multiplied integer comparison  count * den >= num * len.      *)
(* The seed lists S and W_nodes are modelled as sets of node indices: the  *)
(* source only iterates over them and writes the same constant for every   *)
(* element, so order and repetition within one list have no effect.        *)
(***************************************************************************)
EXTENDS Integers, Sequences, FiniteSets, TLC

\* ---------------------------------------------------------------- bounds
MaxN == 3
MaxEdges == 2
MaxSeeds == 1

MaxW == 2
MaxTrials == 2

\* Thresholds tried, as <<numerator, denominator>>.
QSet == {<<0, 1>>, <<1, 3>>, <<1, 2>>, <<1, 1>>}

\* The 4-node path 0-1-2-3 of the concrete scenario, as the edge list fed
\* to add_edge.
PathEdges == <<(<<0, 1>>), (<<1, 2>>), (<<2, 3>>)>>
PathN == Len(PathEdges) + 1

VARIABLES
    n,                \* G.n
    adj,              \* G.adj: node -> list of neighbours
    pc,               \* "build" | "while" | "for" | "done"
    S,                \* argument S of the current call
    W_nodes,          \* argument W_nodes of the current call
    W_omitted,        \* TRUE when the call left W_nodes to its default
    W_default,        \* the default-argument list object of contagion_brd
    q,                \* argument q of the current call
    status,           \* local status
    can_switch,       \* local can_switch
    new_status,       \* local new_status
    changed,          \* local changed
    node,             \* loop variable of `for node in range(n)`
    rounds,           \* number of while-loop iterations entered in this call
    infected_nodes,   \* first component of the returned tuple
    wise_nodes_final, \* second component of the returned tuple
    run,              \* number of calls of contagion_brd made on this graph
    prev,             \* the tuple returned by the previous call
    arg_k,            \* run_experiment parameter k
    arg_w,            \* run_experiment parameter w
    strategy,         \* run_experiment parameter strategy
    trials,           \* run_experiment parameter trials
    degrees,          \* run_experiment local degrees
    infected_counts,  \* run_experiment local infected_counts
    trial             \* iterations of `for _ in range(trials)` completed

vars == <<n, adj, pc, S, W_nodes, W_omitted, W_default, q, status, can_switch,
          new_status, changed, node, rounds, infected_nodes, wise_nodes_final,
          run, prev, arg_k, arg_w, strategy, trials, degrees, infected_counts,
          trial>>

expVars == <<arg_k, arg_w, strategy, trials, degrees, infected_counts, trial>>
graphVars == <<n, adj>>
argVars == <<S, W_nodes, W_omitted, q>>
resultVars == <<infected_nodes, wise_nodes_final>>

\* ---------------------------------------------------------------- helpers
Nodes(k) == 0 .. (k - 1)

Range(s) == {s[i] : i \in DOMAIN s}

\* range(n) as a list
NodeSeq(k) == [i \in 1 .. k |-> i - 1]

\* sum(1 for neigh in neighbors if st[neigh] == s)
Count(st, neighbors, s) ==
    Cardinality({i \in DOMAIN neighbors : st[neighbors[i]] = s})

\* Variant of RatioGEq: the comparison is strict (count / d > q).
RatioGt(count, d, qq) == count * qq[2] > qq[1] * d

\* count / d >= q
RatioGEq(count, d, qq) == count * qq[2] >= qq[1] * d

\* number of undirected edges (self-loops included) held by adjacency a
NumEdges(a) ==
    Cardinality({e \in (DOMAIN a) \X (DOMAIN a) :
                    e[1] <= e[2] /\ e[2] \in Range(a[e[1]])})

\* the seed lists a caller may pass for a graph of k nodes
SeedSets(k) == {T \in SUBSET Nodes(k) : Cardinality(T) <= MaxSeeds}

\* ---------------------------------------------------------------- graph
\* UndirectedGraph.__init__
EmptyAdj(k) == [v \in Nodes(k) |-> <<>>]

\* Variant of AddEdgeAdj: the second membership test is missing.
AddEdgeAdjNoSecondTest(a, nodeA, nodeB) ==
    LET a1 == IF nodeB \notin Range(a[nodeA])
              THEN [a EXCEPT ![nodeA] = Append(@, nodeB)]
              ELSE a
    IN  [a1 EXCEPT ![nodeB] = Append(@, nodeA)]

\* UndirectedGraph.add_edge: the adjacency after add_edge(nodeA, nodeB)
AddEdgeAdj(a, nodeA, nodeB) ==
    LET a1 == IF nodeB \notin Range(a[nodeA])
              THEN [a EXCEPT ![nodeA] = Append(@, nodeB)]
              ELSE a
    IN  IF nodeA \notin Range(a1[nodeB])
        THEN [a1 EXCEPT ![nodeB] = Append(@, nodeA)]
        ELSE a1

\* ---------------------------------------------------------------- engine
\* Variant of InitStatus: the spreader loop runs after the wise loop.
InitStatusSpreaderLast(k, Sx, Wx) ==
    [v \in Nodes(k) |-> IF v \in Sx THEN "X" ELSE IF v \in Wx THEN "W" ELSE "Y"]

\* status and can_switch after the two seed loops
InitStatus(k, Sx, Wx) ==
    [v \in Nodes(k) |-> IF v \in Wx THEN "W" ELSE IF v \in Sx THEN "X" ELSE "Y"]

InitCanSwitch(k, Sx, Wx) == [v \in Nodes(k) |-> v \notin (Sx \cup Wx)]

\* Variant of Convert: the `status[node] == "Y"` test is missing.
ConvertNoYCheck(st, cs, a, qq, v) ==
    IF ~cs[v] THEN "-"
    ELSE LET neighbors == a[v]
         IN  IF Len(neighbors) = 0 THEN "-"
             ELSE IF RatioGEq(Count(st, neighbors, "X"), Len(neighbors), qq) THEN "X"
             ELSE IF RatioGEq(Count(st, neighbors, "W"), Len(neighbors), qq) THEN "W"
             ELSE "-"

\* Variant of Convert: the wise threshold is tested before the spreader one.
ConvertWiseFirst(st, cs, a, qq, v) ==
    IF ~cs[v] THEN "-"
    ELSE IF st[v] # "Y" THEN "-"
    ELSE LET neighbors == a[v]
         IN  IF Len(neighbors) = 0 THEN "-"
             ELSE IF RatioGEq(Count(st, neighbors, "W"), Len(neighbors), qq) THEN "W"
             ELSE IF RatioGEq(Count(st, neighbors, "X"), Len(neighbors), qq) THEN "X"
             ELSE "-"

\* Variant of Convert: the `len(neighbors) == 0` test is missing.
ConvertNoIsolationCheck(st, cs, a, qq, v) ==
    IF ~cs[v] THEN "-"
    ELSE IF st[v] # "Y" THEN "-"
    ELSE LET neighbors == a[v]
         IN  IF RatioGEq(Count(st, neighbors, "X"), Len(neighbors), qq) THEN "X"
             ELSE IF RatioGEq(Count(st, neighbors, "W"), Len(neighbors), qq) THEN "W"
             ELSE "-"

\* The body of the for loop for one node v, read from the snapshot st:
\* the state written to new_status[v], or "-" when nothing is written.
Convert(st, cs, a, qq, v) ==
    IF ~cs[v] THEN "-"
    ELSE IF st[v] # "Y" THEN "-"
    ELSE LET neighbors == a[v]
         IN  IF Len(neighbors) = 0 THEN "-"
             ELSE LET X_count == Count(st, neighbors, "X")
                      W_count == Count(st, neighbors, "W")
                  IN  IF RatioGEq(X_count, Len(neighbors), qq) THEN "X"
                      ELSE IF RatioGEq(W_count, Len(neighbors), qq) THEN "W"
                      ELSE "-"

\* Variant of NodesWith: the comprehension keeps every node that left "Y".
NodesWithNotY(st, s) ==
    LET Test(v) == st[v] # "Y"
    IN  SelectSeq(NodeSeq(Cardinality(DOMAIN st)), Test)

\* [node for node in range(n) if st[node] == s]
NodesWith(st, s) ==
    LET Test(v) == st[v] = s
    IN  SelectSeq(NodeSeq(Cardinality(DOMAIN st)), Test)

\* ---------------------------------------------------------------- actions
\* G = UndirectedGraph(k); no call of contagion_brd made yet
InitWith(k) ==
    /\ n = k
    /\ adj = EmptyAdj(k)
    /\ pc = "build"
    /\ S = {}
    /\ W_nodes = {}
    /\ W_omitted = FALSE
    /\ W_default = {}
    /\ q = <<0, 1>>
    /\ status = <<>>
    /\ can_switch = <<>>
    /\ new_status = <<>>
    /\ changed = FALSE
    /\ node = 0
    /\ rounds = 0
    /\ infected_nodes = <<>>
    /\ wise_nodes_final = <<>>
    /\ run = 0
    /\ prev = <<>>
    /\ arg_k = 0
    /\ arg_w = 0
    /\ strategy = "none"
    /\ trials = 0
    /\ degrees = <<>>
    /\ infected_counts = <<>>
    /\ trial = 0

Init == \E k \in 0 .. MaxN : InitWith(k)

\* G.add_edge(nodeA, nodeB) while the graph is being built
AddEdge(nodeA, nodeB) ==
    /\ pc = "build"
    /\ adj' = AddEdgeAdj(adj, nodeA, nodeB)
    /\ UNCHANGED <<n, pc, S, W_nodes, W_omitted, W_default, q, status,
                   can_switch, new_status, changed, node, rounds,
                   infected_nodes, wise_nodes_final, run, prev>>
    /\ UNCHANGED expVars

AddAnyEdge ==
    /\ pc = "build"
    /\ \E nodeA \in Nodes(n), nodeB \in Nodes(n) :
        /\ NumEdges(AddEdgeAdj(adj, nodeA, nodeB)) <= MaxEdges
        /\ AddEdge(nodeA, nodeB)

\* Variant of Enter: `changed` lives across calls and is set only once.
EnterStale(Sx, Wx, omitted, qx) ==
    /\ S' = Sx
    /\ W_nodes' = Wx
    /\ W_omitted' = omitted
    /\ q' = qx
    /\ status' = InitStatus(n, Sx, Wx)
    /\ can_switch' = InitCanSwitch(n, Sx, Wx)
    /\ new_status' = <<>>
    /\ changed' = IF run = 0 THEN TRUE ELSE changed
    /\ node' = 0
    /\ rounds' = 0
    /\ pc' = "while"
    /\ UNCHANGED <<graphVars, W_default, resultVars>>

\* Entry of contagion_brd up to `changed = True`
Enter(Sx, Wx, omitted, qx) ==
    /\ S' = Sx
    /\ W_nodes' = Wx
    /\ W_omitted' = omitted
    /\ q' = qx
    /\ status' = InitStatus(n, Sx, Wx)
    /\ can_switch' = InitCanSwitch(n, Sx, Wx)
    /\ new_status' = <<>>
    /\ changed' = TRUE
    /\ node' = 0
    /\ rounds' = 0
    /\ pc' = "while"
    /\ UNCHANGED <<graphVars, W_default, resultVars>>

\* first call of contagion_brd on the graph
Call ==
    /\ pc = "build"
    /\ \E Sx \in SeedSets(n), Wx \in SeedSets(n), omitted \in BOOLEAN, qx \in QSet :
          Enter(Sx, IF omitted THEN W_default ELSE Wx, omitted, qx)
    /\ run' = 1
    /\ prev' = prev
    /\ UNCHANGED expVars

\* a second call on the same graph with the same arguments
CallAgain ==
    /\ pc = "done"
    /\ run = 1
    /\ Enter(S, IF W_omitted THEN W_default ELSE W_nodes, W_omitted, q)
    /\ run' = run + 1
    /\ prev' = <<infected_nodes, wise_nodes_final>>
    /\ UNCHANGED expVars

\* Variant of WhileEnter: new_status starts from a fresh all-"Y" list.
WhileEnterFresh ==
    /\ pc = "while"
    /\ changed
    /\ changed' = FALSE
    /\ new_status' = [v \in Nodes(n) |-> "Y"]
    /\ node' = 0
    /\ rounds' = rounds + 1
    /\ pc' = "for"
    /\ UNCHANGED <<graphVars, argVars, W_default, status, can_switch,
                   resultVars, run, prev>>
    /\ UNCHANGED expVars

\* `while changed:` true: changed = False; new_status = status.copy()
WhileEnter ==
    /\ pc = "while"
    /\ changed
    /\ changed' = FALSE
    /\ new_status' = status
    /\ node' = 0
    /\ rounds' = rounds + 1
    /\ pc' = "for"
    /\ UNCHANGED <<graphVars, argVars, W_default, status, can_switch,
                   resultVars, run, prev>>
    /\ UNCHANGED expVars

\* Variant of ForNode: the round updates one list in place, so a node reads
\* what earlier nodes of the same round wrote.
ForNodeInPlace ==
    /\ pc = "for"
    /\ node < n
    /\ LET c == Convert(new_status, can_switch, adj, q, node)
       IN  /\ new_status' = IF c = "-" THEN new_status
                                       ELSE [new_status EXCEPT ![node] = c]
           /\ changed' = (changed \/ c # "-")
    /\ node' = node + 1
    /\ UNCHANGED <<graphVars, argVars, W_default, status, can_switch, rounds,
                   pc, resultVars, run, prev>>
    /\ UNCHANGED expVars

\* Variant of ForNode: `changed` is overwritten by each node's outcome
\* instead of only ever being set.
ForNodeLastWins ==
    /\ pc = "for"
    /\ node < n
    /\ LET c == Convert(status, can_switch, adj, q, node)
       IN  /\ new_status' = IF c = "-" THEN new_status
                                       ELSE [new_status EXCEPT ![node] = c]
           /\ changed' = (c # "-")
    /\ node' = node + 1
    /\ UNCHANGED <<graphVars, argVars, W_default, status, can_switch, rounds,
                   pc, resultVars, run, prev>>
    /\ UNCHANGED expVars

\* one iteration of `for node in range(n):`
ForNode ==
    /\ pc = "for"
    /\ node < n
    /\ LET c == Convert(status, can_switch, adj, q, node)
       IN  /\ new_status' = IF c = "-" THEN new_status
                                       ELSE [new_status EXCEPT ![node] = c]
           /\ changed' = (changed \/ c # "-")
    /\ node' = node + 1
    /\ UNCHANGED <<graphVars, argVars, W_default, status, can_switch, rounds,
                   pc, resultVars, run, prev>>
    /\ UNCHANGED expVars

\* the for loop is exhausted: status = new_status
ForEnd ==
    /\ pc = "for"
    /\ node = n
    /\ status' = new_status
    /\ pc' = "while"
    /\ UNCHANGED <<graphVars, argVars, W_default, can_switch, new_status,
                   changed, node, rounds, resultVars, run, prev>>
    /\ UNCHANGED expVars

\* `while changed:` false: build the two lists and return
Return ==
    /\ pc = "while"
    /\ ~changed
    /\ infected_nodes' = NodesWith(status, "X")
    /\ wise_nodes_final' = NodesWith(status, "W")
    /\ pc' = "done"
    /\ UNCHANGED <<graphVars, argVars, W_default, status, can_switch,
                   new_status, changed, node, rounds, run, prev>>
    /\ UNCHANGED expVars

Next ==
    \/ AddAnyEdge
    \/ Call
    \/ WhileEnter
    \/ ForNode
    \/ ForEnd
    \/ Return

Spec == Init /\ [][Next]_vars

\* Two calls in a row: the graph is built, contagion_brd runs, and runs again
\* on the same arguments.
NextRerun ==
    \/ AddAnyEdge
    \/ Call
    \/ CallAgain
    \/ WhileEnter
    \/ ForNode
    \/ ForEnd
    \/ Return

SpecRerun == Init /\ [][NextRerun]_vars

\* The concrete scenario: the path graph is loaded edge by edge, then
\* contagion_brd is called on it.
InitPath == InitWith(PathN)

AddPathEdge ==
    /\ pc = "build"
    /\ NumEdges(adj) < Len(PathEdges)
    /\ LET e == PathEdges[NumEdges(adj) + 1] IN AddEdge(e[1], e[2])

CallPath ==
    /\ pc = "build"
    /\ NumEdges(adj) = Len(PathEdges)
    /\ Call

NextPath ==
    \/ AddPathEdge
    \/ CallPath
    \/ WhileEnter
    \/ ForNode
    \/ ForEnd
    \/ Return

SpecPath == InitPath /\ [][NextPath]_vars

\* Graph construction alone: any sequence of add_edge calls with indices in
\* 0..n-1.
BuildEdge ==
    /\ pc = "build"
    /\ \E nodeA \in Nodes(n), nodeB \in Nodes(n) : AddEdge(nodeA, nodeB)

NextGraph == BuildEdge

SpecGraph == Init /\ [][NextGraph]_vars

\* ------------------------------------------------------------ experiment
\* Strategy names passed to run_experiment; "other" stands for any name the
\* if/elif chain does not know.
Strategies == {"none", "random", "high_degree", "other"}

\* Thresholds passed to run_experiment, the second outside [0, 1].
ExpQSet == {<<1, 2>>, <<3, 2>>}

\* degrees = [len(G.edges_from(node)) for node in range(n)]
Degrees(a) == [v \in DOMAIN a |-> Len(a[v])]

\* The lists random.sample(population, size) can return, each as the set of
\* its (distinct) elements.
Sample(population, size) ==
    {T \in SUBSET population : Cardinality(T) = size}

Min(a, b) == IF a <= b THEN a ELSE b

\* Variant of InsertByDegree: reverse=True is missing (ascending degree).
RECURSIVE InsertByDegreeAscending(_, _, _)
InsertByDegreeAscending(sorted, x, deg) ==
    IF sorted = <<>> THEN <<x>>
    ELSE IF deg[Head(sorted)] <= deg[x]
         THEN <<Head(sorted)>> \o InsertByDegreeAscending(Tail(sorted), x, deg)
         ELSE <<x>> \o sorted

\* One step of the stable sort by key degrees[x], reverse=True: x, which
\* follows every element of `sorted` in the input, goes after the elements
\* whose key is greater or equal.
RECURSIVE InsertByDegree(_, _, _)
InsertByDegree(sorted, x, deg) ==
    IF sorted = <<>> THEN <<x>>
    ELSE IF deg[Head(sorted)] >= deg[x]
         THEN <<Head(sorted)>> \o InsertByDegree(Tail(sorted), x, deg)
         ELSE <<x>> \o sorted

\* sorted(range(m), key=lambda x: degrees[x], reverse=True)
RECURSIVE SortedNodes(_, _)
SortedNodes(m, deg) ==
    IF m = 0 THEN <<>>
    ELSE InsertByDegree(SortedNodes(m - 1, deg), m - 1, deg)

\* [node for node in sorted_nodes if node not in S][:w]
HighDegree(deg, Sx, wx) ==
    LET NotInS(v) == v \notin Sx
        filtered == SelectSeq(SortedNodes(Cardinality(DOMAIN deg), deg), NotInS)
    IN  SubSeq(filtered, 1, Min(wx, Len(filtered)))

\* Variant of WiseChoices: the random strategy samples from all nodes.
WiseChoicesFromAll(strat, Sx, wx, deg) ==
    IF strat = "none" THEN {{}}
    ELSE IF strat = "random"
         THEN Sample(DOMAIN deg, Min(wx, Cardinality((DOMAIN deg) \ Sx)))
    ELSE {Range(HighDegree(deg, Sx, wx))}

\* Variant of WiseChoices: the "none" branch is missing, so "none" takes the
\* next branch.
WiseChoicesNoNone(strat, Sx, wx, deg) ==
    IF strat \in {"none", "random"}
         THEN LET available_nodes == (DOMAIN deg) \ Sx
              IN  Sample(available_nodes, Min(wx, Cardinality(available_nodes)))
    ELSE {Range(HighDegree(deg, Sx, wx))}

\* The values W_nodes can take under a known strategy, as sets of nodes.
WiseChoices(strat, Sx, wx, deg) ==
    IF strat = "none" THEN {{}}
    ELSE IF strat = "random"
         THEN LET available_nodes == (DOMAIN deg) \ Sx
              IN  Sample(available_nodes, Min(wx, Cardinality(available_nodes)))
    ELSE {Range(HighDegree(deg, Sx, wx))}

\* new_status after one whole round read from the snapshot st
RoundOf(st, cs, a, qq) ==
    [v \in DOMAIN st |->
        LET c == Convert(st, cs, a, qq, v) IN IF c = "-" THEN st[v] ELSE c]

\* The while loop run to its end from status st: the final status and the
\* number of rounds, r rounds having been run already.
RECURSIVE RunRounds(_, _, _, _, _)
RunRounds(st, cs, a, qq, r) ==
    LET ns == RoundOf(st, cs, a, qq)
    IN  IF ns = st THEN [status |-> st, rounds |-> r + 1]
        ELSE RunRounds(ns, cs, a, qq, r + 1)

\* create_graph fed an edge list that is sorted and free of repetitions:
\* the next line "nodeA nodeB" has nodeA <= nodeB and follows every edge
\* loaded so far.
LoadSortedEdge ==
    /\ pc = "build"
    /\ NumEdges(adj) < MaxEdges
    /\ \E nodeA \in Nodes(n), nodeB \in Nodes(n) :
          /\ nodeA <= nodeB
          /\ \A c \in Nodes(n) : \A i \in DOMAIN adj[c] :
                c <= adj[c][i] =>
                    (c < nodeA \/ (c = nodeA /\ adj[c][i] < nodeB))
          /\ AddEdge(nodeA, nodeB)

\* run_experiment is called on the built graph: lines up to the for loop
RunExperiment ==
    /\ pc = "build"
    /\ \E qx \in ExpQSet, kx \in 0 .. (n + 1), wx \in 0 .. MaxW,
          sx \in Strategies, tx \in 0 .. MaxTrials :
          /\ q' = qx
          /\ arg_k' = kx
          /\ arg_w' = wx
          /\ strategy' = sx
          /\ trials' = tx
    /\ infected_counts' = <<>>
    /\ degrees' = Degrees(adj)
    /\ trial' = 0
    /\ pc' = "trial"
    /\ UNCHANGED <<graphVars, S, W_nodes, W_omitted, W_default, status,
                   can_switch, new_status, changed, node, rounds, resultVars,
                   run, prev>>

\* a loop iteration that raises ValueError because k > n
TrialRaiseK ==
    /\ pc = "trial"
    /\ trial < trials
    /\ arg_k > n
    /\ pc' = "ValueError"
    /\ UNCHANGED <<graphVars, argVars, W_default, status, can_switch,
                   new_status, changed, node, rounds, resultVars, run, prev,
                   expVars>>

\* a loop iteration that samples S and raises ValueError("Unknown strategy")
TrialRaiseStrategy ==
    /\ pc = "trial"
    /\ trial < trials
    /\ arg_k <= n
    /\ strategy \notin {"none", "random", "high_degree"}
    /\ \E Sx \in Sample(Nodes(n), arg_k) : S' = Sx
    /\ pc' = "ValueError"
    /\ UNCHANGED <<graphVars, W_nodes, W_omitted, q, W_default, status,
                   can_switch, new_status, changed, node, rounds, resultVars,
                   run, prev, expVars>>

\* Variant of TrialRun: the count is inserted at the front of the list.
TrialRunPrepend ==
    /\ pc = "trial"
    /\ trial < trials
    /\ arg_k <= n
    /\ strategy \in {"none", "random", "high_degree"}
    /\ \E Sx \in Sample(Nodes(n), arg_k) :
       \E Wx \in WiseChoices(strategy, Sx, arg_w, degrees) :
          LET cs == InitCanSwitch(n, Sx, Wx)
              end == RunRounds(InitStatus(n, Sx, Wx), cs, adj, q, 0)
          IN  /\ S' = Sx
              /\ W_nodes' = Wx
              /\ W_omitted' = FALSE
              /\ status' = end.status
              /\ can_switch' = cs
              /\ new_status' = status'
              /\ changed' = FALSE
              /\ node' = n
              /\ rounds' = end.rounds
              /\ infected_nodes' = NodesWith(status', "X")
              /\ wise_nodes_final' = NodesWith(status', "W")
    /\ infected_counts' = <<Len(infected_nodes')>> \o infected_counts
    /\ trial' = trial + 1
    /\ run' = run + 1
    /\ prev' = prev
    /\ UNCHANGED <<graphVars, q, W_default, pc, arg_k, arg_w, strategy, trials,
                   degrees>>

\* a whole loop iteration that completes: S and W_nodes are drawn, the
\* engine is run to its return, and the count is appended
TrialRun ==
    /\ pc = "trial"
    /\ trial < trials
    /\ arg_k <= n
    /\ strategy \in {"none", "random", "high_degree"}
    /\ \E Sx \in Sample(Nodes(n), arg_k) :
       \E Wx \in WiseChoices(strategy, Sx, arg_w, degrees) :
          LET cs == InitCanSwitch(n, Sx, Wx)
              end == RunRounds(InitStatus(n, Sx, Wx), cs, adj, q, 0)
          IN  /\ S' = Sx
              /\ W_nodes' = Wx
              /\ W_omitted' = FALSE
              /\ status' = end.status
              /\ can_switch' = cs
              /\ new_status' = status'
              /\ changed' = FALSE
              /\ node' = n
              /\ rounds' = end.rounds
              /\ infected_nodes' = NodesWith(status', "X")
              /\ wise_nodes_final' = NodesWith(status', "W")
    /\ infected_counts' = Append(infected_counts, Len(infected_nodes'))
    /\ trial' = trial + 1
    /\ run' = run + 1
    /\ prev' = prev
    /\ UNCHANGED <<graphVars, q, W_default, pc, arg_k, arg_w, strategy, trials,
                   degrees>>

\* the for loop is exhausted: return infected_counts
ExperimentReturn ==
    /\ pc = "trial"
    /\ trial >= trials
    /\ pc' = "returned"
    /\ UNCHANGED <<graphVars, argVars, W_default, status, can_switch,
                   new_status, changed, node, rounds, resultVars, run, prev,
                   expVars>>

NextExp ==
    \/ LoadSortedEdge
    \/ RunExperiment
    \/ TrialRaiseK
    \/ TrialRaiseStrategy
    \/ TrialRun
    \/ ExperimentReturn

SpecExp == Init /\ [][NextExp]_vars

\* ------------------------------------------------------- list subscripts
\* lst[i] on a list of length len: Python accepts -len <= i < len, counts a
\* negative i from the end, and raises IndexError otherwise.
IndexOk(len, i) == (0 - len) <= i /\ i < len

IndexOf(len, i) == IF i < 0 THEN i + len ELSE i

\* the indices a caller may pass for a graph of k nodes, in range or not
RawIndices(k) == (0 - (k + 1)) .. k

RawSeedSets(k) == {T \in SUBSET RawIndices(k) : Cardinality(T) <= MaxSeeds}

\* UndirectedGraph.add_edge with unchecked indices: the adjacency the call
\* leaves behind, and whether one of its two subscripts self.adj[...] raised.
\* The values appended are the arguments as passed.
AddEdgeRawAdj(a, nodeA, nodeB) ==
    LET len == Cardinality(DOMAIN a)
    IN  IF ~IndexOk(len, nodeA) THEN [adj |-> a, raised |-> TRUE]
        ELSE LET ia == IndexOf(len, nodeA)
                 a1 == IF nodeB \notin Range(a[ia])
                       THEN [a EXCEPT ![ia] = Append(@, nodeB)]
                       ELSE a
             IN  IF ~IndexOk(len, nodeB) THEN [adj |-> a1, raised |-> TRUE]
                 ELSE LET ib == IndexOf(len, nodeB)
                      IN  [adj |-> IF nodeA \notin Range(a1[ib])
                                   THEN [a1 EXCEPT ![ib] = Append(@, nodeA)]
                                   ELSE a1,
                           raised |-> FALSE]

\* G.add_edge(nodeA, nodeB) with at least one index outside 0..n-1; the
\* graph is not used after this call
AddEdgeRaw ==
    /\ pc = "build"
    /\ \E nodeA \in RawIndices(n), nodeB \in RawIndices(n) :
          /\ ~({nodeA, nodeB} \subseteq Nodes(n))
          /\ LET r == AddEdgeRawAdj(adj, nodeA, nodeB)
             IN  /\ adj' = r.adj
                 /\ pc' = IF r.raised THEN "IndexError" ELSE "linked"
    /\ UNCHANGED <<n, S, W_nodes, W_omitted, W_default, q, status,
                   can_switch, new_status, changed, node, rounds,
                   infected_nodes, wise_nodes_final, run, prev>>
    /\ UNCHANGED expVars

\* contagion_brd(G, S, q, W_nodes) in which a subscript status[node] or
\* status[w] of the seed loops raises IndexError: the locals are lost and
\* nothing is returned
CallRawRaises ==
    /\ pc = "build"
    /\ \E Sx \in RawSeedSets(n), Wx \in RawSeedSets(n), qx \in QSet :
          /\ \E i \in Sx \cup Wx : ~IndexOk(n, i)
          /\ S' = Sx
          /\ W_nodes' = Wx
          /\ q' = qx
    /\ W_omitted' = FALSE
    /\ run' = 1
    /\ pc' = "IndexError"
    /\ UNCHANGED <<graphVars, W_default, status, can_switch, new_status,
                   changed, node, rounds, resultVars, prev>>
    /\ UNCHANGED expVars

\* contagion_brd(G, S, q, W_nodes) in which every subscript of the seed loops
\* is accepted: the seed loops write the nodes the indices resolve to, and
\* the engine runs to its return
CallRawReturns ==
    /\ pc = "build"
    /\ \E Sx \in RawSeedSets(n), Wx \in RawSeedSets(n), qx \in QSet :
          /\ \A i \in Sx \cup Wx : IndexOk(n, i)
          /\ LET Sn == {IndexOf(n, i) : i \in Sx}
                 Wn == {IndexOf(n, i) : i \in Wx}
                 cs == InitCanSwitch(n, Sn, Wn)
                 end == RunRounds(InitStatus(n, Sn, Wn), cs, adj, qx, 0)
             IN  /\ S' = Sx
                 /\ W_nodes' = Wx
                 /\ q' = qx
                 /\ status' = end.status
                 /\ can_switch' = cs
                 /\ new_status' = status'
                 /\ rounds' = end.rounds
                 /\ infected_nodes' = NodesWith(status', "X")
                 /\ wise_nodes_final' = NodesWith(status', "W")
    /\ W_omitted' = FALSE
    /\ changed' = FALSE
    /\ node' = n
    /\ run' = 1
    /\ pc' = "done"
    /\ UNCHANGED <<graphVars, W_default, prev>>
    /\ UNCHANGED expVars

NextIndex ==
    \/ LoadSortedEdge
    \/ AddEdgeRaw
    \/ CallRawRaises
    \/ CallRawReturns

SpecIndex == Init /\ [][NextIndex]_vars

\* ================================================================ claims
InCall == pc \in {"while", "for", "done"}

\* the for loop of the current round has evaluated every node
RoundComputed == pc = "for" /\ node = n

Degree(v) == Len(adj[v])

Seeds == S \cup W_nodes

\* all orders in which the nodes 0..k-1 can be evaluated
Orders(k) == {[i \in 1 .. k |-> f[i - 1]] : f \in Permutations(Nodes(k))}

\* new_status after the loop body has run for the nodes of `order`, in that
\* order, each reading the snapshot st
RECURSIVE RoundIn(_, _, _)
RoundIn(order, st, ns) ==
    IF order = <<>> THEN ns
    ELSE LET c == Convert(st, can_switch, adj, q, Head(order))
         IN  RoundIn(Tail(order), st,
                     IF c = "-" THEN ns ELSE [ns EXCEPT ![Head(order)] = c])

\* C1 (as stated): in every call the number of rounds entered, the no-change
\* round included, is at most n.
C1_AtMostNRounds == InCall => rounds <= n

\* C1 (amended): the number of rounds entered, the no-change round included,
\* is at most n when n >= 2 and at most n + 1 when n <= 1; the call returns
\* after a round in which no node changed state.
C1_RoundsBound ==
    InCall =>
        /\ rounds <= (IF n >= 2 THEN n ELSE n + 1)
        /\ pc = "done" => (rounds >= 1 /\ ~changed /\ new_status = status)

\* a call on a graph of at least two nodes that returned after exactly n rounds
C1_Witness == pc = "done" /\ n >= 2 /\ rounds = n

\* C2: within one call a node that is "X" or "W" keeps its state in every
\* step (in status and in the round's new_status), and the number of nodes
\* that are "X" or "W" never decreases.
C2_Monotone ==
    [][(pc \in {"while", "for"} /\ pc' \in {"while", "for", "done"}) =>
          /\ \A v \in Nodes(n) :
                status[v] # "Y" =>
                    /\ status'[v] = status[v]
                    /\ pc' = "for" => new_status'[v] = status[v]
          /\ Cardinality({v \in Nodes(n) : status'[v] # "Y"})
                >= Cardinality({v \in Nodes(n) : status[v] # "Y"})]_vars

\* a later round of a call in which a node converted in an earlier round is
\* still in its state while another node converts
C2_Witness ==
    /\ RoundComputed
    /\ rounds >= 2
    /\ \E v \in Nodes(n) : can_switch[v] /\ status[v] # "Y" /\ new_status[v] = status[v]
    /\ \E v \in Nodes(n) : status[v] = "Y" /\ new_status[v] # "Y"

\* C3 (as stated): in the result every node of S is in Infected and every
\* node of W \ S is in Wise.
C3_SeedsAsStated ==
    pc = "done" =>
        /\ \A v \in S : v \in Range(infected_nodes)
        /\ \A v \in W_nodes \ S : v \in Range(wise_nodes_final)

\* C3 (amended): every node of S \ W is "X" and every node of W is "W" from
\* initialization on, through every round, and in the result every node of
\* S \ W is in Infected and every node of W is in Wise.
C3_SeedsLocked ==
    InCall =>
        /\ \A v \in W_nodes : status[v] = "W" /\ (pc = "for" => new_status[v] = "W")
        /\ \A v \in S \ W_nodes : status[v] = "X" /\ (pc = "for" => new_status[v] = "X")
        /\ pc = "done" =>
              /\ \A v \in S \ W_nodes : v \in Range(infected_nodes)
              /\ \A v \in W_nodes : v \in Range(wise_nodes_final)

\* a returned call with a spreader seed, a wise seed and a round that
\* converted a node
C3_Witness ==
    /\ pc = "done"
    /\ S \ W_nodes # {}
    /\ W_nodes # {}
    /\ rounds >= 2

\* C4: the new_status a round produces is the loop body applied to the
\* snapshot status in any order of the nodes.
C4_OrderIndependent ==
    RoundComputed =>
        \A order \in Orders(n) : RoundIn(order, status, status) = new_status

\* a finished round in which a node converted and a neighbour that stayed
\* "Y" would have converted had it read the round's own output
C4_Witness ==
    /\ RoundComputed
    /\ \E v \in Nodes(n) :
          /\ new_status[v] = "Y"
          /\ Convert(new_status, can_switch, adj, q, v) # "-"
          /\ \E i \in DOMAIN adj[v] : new_status[adj[v][i]] # status[adj[v][i]]

\* C5: a node evaluated in the current round that is unlocked, "Y" in the
\* snapshot and has d >= 1 neighbours becomes "X" when both ratios reach q,
\* and becomes "W" only when the "X" ratio is below q and the "W" ratio
\* reaches q.
C5_SpreaderFirst ==
    pc = "for" =>
        \A v \in Nodes(n) :
            (v < node /\ can_switch[v] /\ status[v] = "Y" /\ Degree(v) >= 1) =>
                LET x == Cardinality({i \in DOMAIN adj[v] : status[adj[v][i]] = "X"})
                    w == Cardinality({i \in DOMAIN adj[v] : status[adj[v][i]] = "W"})
                    d == Degree(v)
                IN  /\ (x * q[2] >= q[1] * d /\ w * q[2] >= q[1] * d)
                        => new_status[v] = "X"
                    /\ new_status[v] = "W"
                        => (x * q[2] < q[1] * d /\ w * q[2] >= q[1] * d)

\* a node with a spreader and a wise neighbour, both ratios at q > 0, that
\* the round made a spreader
C5_Witness ==
    /\ pc = "for"
    /\ q[1] > 0
    /\ \E v \in Nodes(n) :
          /\ v < node /\ can_switch[v] /\ status[v] = "Y"
          /\ \E i \in DOMAIN adj[v] : status[adj[v][i]] = "X"
          /\ \E i \in DOMAIN adj[v] : status[adj[v][i]] = "W"
          /\ Count(status, adj[v], "X") * q[2] >= q[1] * Degree(v)
          /\ Count(status, adj[v], "W") * q[2] >= q[1] * Degree(v)
          /\ new_status[v] = "X"

\* C6: with q = 0, once round 1 is over every non-seed node with at least one
\* neighbour is "X" (so no non-isolated node is "Y"), and the returned Wise
\* list holds exactly the wise seeds.
C6_ZeroThreshold ==
    (InCall /\ q[1] = 0) =>
        /\ (pc \in {"while", "done"} /\ rounds >= 1) =>
              \A v \in Nodes(n) :
                  /\ (v \notin Seeds /\ Degree(v) >= 1) => status[v] = "X"
                  /\ Degree(v) >= 1 => status[v] # "Y"
        /\ pc = "done" => Range(wise_nodes_final) = W_nodes

\* a returned call with q = 0 in which a non-seed node whose only neighbours
\* are wise was made a spreader
C6_Witness ==
    /\ pc = "done"
    /\ q[1] = 0
    /\ \E v \in Nodes(n) :
          /\ v \notin Seeds
          /\ Degree(v) >= 1
          /\ \A i \in DOMAIN adj[v] : adj[v][i] \in W_nodes
          /\ v \in Range(infected_nodes)

\* C7: a node with no neighbour that is in neither seed list is "Y" in
\* every round and is in neither returned list.
C7_Isolated ==
    InCall =>
        \A v \in Nodes(n) :
            (Degree(v) = 0 /\ v \notin Seeds) =>
                /\ status[v] = "Y"
                /\ pc = "for" => new_status[v] = "Y"
                /\ pc = "done" => /\ v \notin Range(infected_nodes)
                                  /\ v \notin Range(wise_nodes_final)

\* a returned call with q = 0 that converted some node and left an isolated
\* non-seed node alone
C7_Witness ==
    /\ pc = "done"
    /\ q[1] = 0
    /\ rounds >= 2
    /\ \E v \in Nodes(n) : Degree(v) = 0 /\ v \notin Seeds /\ status[v] = "Y"

\* the call of the concrete scenario: path 0-1-2-3, S = {0}, W = {}, q = 1/2
PathScenario ==
    /\ InCall
    /\ n = PathN
    /\ NumEdges(adj) = Len(PathEdges)
    /\ \A i \in DOMAIN PathEdges :
          PathEdges[i][2] \in Range(adj[PathEdges[i][1]])
    /\ S = {0}
    /\ W_nodes = {}
    /\ q = <<1, 2>>

\* C8: in the scenario, after round r (r = 1, 2, 3) exactly the nodes 0..r
\* are "X" and the rest "Y", so round r converts exactly node r; round 4
\* changes nothing and is the last; the call returns Infected = [0,1,2,3]
\* and Wise = [].
C8_PathScenario ==
    PathScenario =>
        /\ rounds <= PathN
        /\ pc = "while" =>
              /\ status = [v \in Nodes(PathN) |->
                              IF v <= rounds THEN "X" ELSE "Y"]
              /\ changed = (rounds < PathN)
        /\ pc = "done" =>
              /\ rounds = PathN
              /\ infected_nodes = NodeSeq(PathN)
              /\ wise_nodes_final = <<>>

\* the scenario's call has returned
C8_Witness == PathScenario /\ pc = "done"

\* C9: every node 0..n-1 has one of the three states in every round, and
\* the returned lists are disjoint, without duplicates, and hold only nodes
\* of 0..n-1.
C9_StatesAndResult ==
    InCall =>
        /\ DOMAIN status = Nodes(n)
        /\ \A v \in Nodes(n) : status[v] \in {"Y", "X", "W"}
        /\ pc = "for" =>
              /\ DOMAIN new_status = Nodes(n)
              /\ \A v \in Nodes(n) : new_status[v] \in {"Y", "X", "W"}
        /\ pc = "done" =>
              /\ Range(infected_nodes) \cap Range(wise_nodes_final) = {}
              /\ Range(infected_nodes) \subseteq Nodes(n)
              /\ Range(wise_nodes_final) \subseteq Nodes(n)
              /\ Cardinality(Range(infected_nodes)) = Len(infected_nodes)
              /\ Cardinality(Range(wise_nodes_final)) = Len(wise_nodes_final)

\* a returned call whose three classes are all non-empty
C9_Witness ==
    /\ pc = "done"
    /\ infected_nodes # <<>>
    /\ wise_nodes_final # <<>>
    /\ \E v \in Nodes(n) : status[v] = "Y"
    /\ rounds >= 2

\* C10: the second of two calls with the same graph, q, S and W returns the
\* same two lists as the first, and no call changes the default W_nodes
\* list.
C10_Deterministic ==
    /\ W_default = {}
    /\ (pc = "done" /\ run >= 2) =>
          (<<infected_nodes, wise_nodes_final>>) = prev

\* a second call that converted nodes has returned, W_nodes left to its
\* default both times
C10_Witness ==
    /\ pc = "done"
    /\ run >= 2
    /\ W_omitted
    /\ rounds >= 2
    /\ Len(infected_nodes) > Cardinality(S)

\* C11: a node in both seed lists is "W" and locked from initialization on,
\* and is returned in Wise and not in Infected.
C11_WiseOverridesSpreader ==
    InCall =>
        \A v \in S \cap W_nodes :
            /\ status[v] = "W"
            /\ ~can_switch[v]
            /\ pc = "done" => /\ v \in Range(wise_nodes_final)
                              /\ v \notin Range(infected_nodes)

\* a returned call with a node in both seed lists whose neighbour converted
C11_Witness ==
    /\ pc = "done"
    /\ S \cap W_nodes # {}
    /\ rounds >= 2
    /\ Len(wise_nodes_final) > Cardinality(W_nodes)

\* C19: the adjacency is symmetric and no neighbour list holds a duplicate,
\* and add_edge on an edge already present leaves the adjacency unchanged.
C19_SymmetricNoDuplicates ==
    /\ \A a \in Nodes(n), b \in Nodes(n) :
          /\ (b \in Range(adj[a])) <=> (a \in Range(adj[b]))
          /\ b \in Range(adj[a]) =>
                /\ AddEdgeAdj(adj, a, b) = adj
                /\ AddEdgeAdj(adj, b, a) = adj
    /\ \A a \in Nodes(n) :
          \A i, j \in DOMAIN adj[a] : adj[a][i] = adj[a][j] => i = j

\* a graph holding a self-loop and an edge between two different nodes,
\* with a neighbour list of at least two entries
C19_Witness ==
    /\ \E a \in Nodes(n) : a \in Range(adj[a]) /\ Len(adj[a]) >= 2
    /\ \E a \in Nodes(n), b \in Nodes(n) : a < b /\ b \in Range(adj[a])

\* C20: in the returned state no non-seed "Y" node with d >= 1 neighbours
\* has an "X" ratio or a "W" ratio of at least q, the loop body would write
\* nothing for any node, and the returned lists are the "X" and "W" nodes of
\* that state.
C20_ResultStable ==
    pc = "done" =>
        /\ \A v \in Nodes(n) :
              /\ (v \notin Seeds /\ status[v] = "Y" /\ Degree(v) >= 1) =>
                    /\ Count(status, adj[v], "X") * q[2] < q[1] * Degree(v)
                    /\ Count(status, adj[v], "W") * q[2] < q[1] * Degree(v)
              /\ Convert(status, can_switch, adj, q, v) = "-"
        /\ Range(infected_nodes) = {v \in Nodes(n) : status[v] = "X"}
        /\ Range(wise_nodes_final) = {v \in Nodes(n) : status[v] = "W"}

\* a returned call that converted a node and left a non-isolated non-seed
\* node "Y"
C20_Witness ==
    /\ pc = "done"
    /\ rounds >= 2
    /\ \E v \in Nodes(n) : v \notin Seeds /\ status[v] = "Y" /\ Degree(v) >= 1

\* ---------------------------------------------------- run_experiment
InExperiment == pc \in {"trial", "returned", "ValueError"}

\* at least one loop iteration of run_experiment has completed
HadTrial == pc \in {"trial", "returned"} /\ trial >= 1

KnownStrategy == strategy \in {"none", "random", "high_degree"}

\* u comes before v in the ranking by degree descending, ties by ascending
\* node index
RanksBefore(u, v) ==
    \/ Len(adj[u]) > Len(adj[v])
    \/ (Len(adj[u]) = Len(adj[v]) /\ u < v)

\* C12: under "high_degree" the wise set handed to the engine is disjoint
\* from S, has min(w, n - k) nodes, and every node of it ranks before every
\* non-spreader node left out (degree descending, ties by ascending index).
C12_HighDegree ==
    (HadTrial /\ strategy = "high_degree") =>
        /\ W_nodes \subseteq Nodes(n)
        /\ W_nodes \cap S = {}
        /\ Cardinality(W_nodes) = Min(arg_w, n - arg_k)
        /\ \A u \in W_nodes : \A v \in Nodes(n) \ (S \cup W_nodes) :
              RanksBefore(u, v)

\* a "high_degree" trial in which a spreader outranks a chosen wise node
\* and a tie between a chosen and a left-out node was broken by index
C12_Witness ==
    /\ HadTrial
    /\ strategy = "high_degree"
    /\ Cardinality(W_nodes) = arg_w
    /\ \E s \in S : \E u \in W_nodes : RanksBefore(s, u)
    /\ \E u \in W_nodes : \E v \in Nodes(n) \ (S \cup W_nodes) :
          Len(adj[u]) = Len(adj[v])

\* C13: with k <= n every trial's S has exactly k nodes of 0..n-1, and under
\* "random" W has exactly min(w, n - k) nodes of 0..n-1, none of them in S.
C13_SampleSizes ==
    HadTrial =>
        /\ S \subseteq Nodes(n)
        /\ Cardinality(S) = arg_k
        /\ strategy = "random" =>
              /\ W_nodes \subseteq Nodes(n)
              /\ W_nodes \cap S = {}
              /\ Cardinality(W_nodes) = Min(arg_w, n - arg_k)

\* a "random" trial in which fewer than w nodes were left outside S
C13_Witness ==
    /\ HadTrial
    /\ strategy = "random"
    /\ arg_k >= 1
    /\ W_nodes # {}
    /\ arg_w > n - arg_k

\* C14: under "none" the wise set handed to the engine is empty for every
\* w, and the trial's returned Wise list is empty.
C14_NoneIsEmpty ==
    (HadTrial /\ strategy = "none") =>
        /\ W_nodes = {}
        /\ wise_nodes_final = <<>>

\* a "none" trial with w >= 1 in which the rumor spread beyond the seeds
C14_Witness ==
    /\ HadTrial
    /\ strategy = "none"
    /\ arg_w >= 1
    /\ Len(infected_nodes) > arg_k

\* C15: for k <= n, a known strategy and trials >= 1, the engine has run
\* once per completed trial, infected_counts holds one entry per completed
\* trial, each trial appends |Infected| of that trial and leaves the earlier
\* entries alone, the returned list has `trials` entries, and the graph and
\* the degree table never change.
C15_OneCountPerTrial ==
    /\ []((InExperiment /\ arg_k <= n /\ KnownStrategy /\ trials >= 1) =>
            /\ pc # "ValueError"
            /\ run = trial
            /\ Len(infected_counts) = trial
            /\ trial >= 1 => infected_counts[trial] = Len(infected_nodes)
            /\ pc = "returned" => Len(infected_counts) = trials
            /\ degrees = [v \in Nodes(n) |-> Len(adj[v])])
    /\ [][InExperiment =>
            /\ adj' = adj
            /\ n' = n
            /\ degrees' = degrees
            /\ Len(infected_counts') >= Len(infected_counts)
            /\ SubSeq(infected_counts', 1, Len(infected_counts)) = infected_counts]_vars

\* a returned experiment of at least two trials whose first two counts
\* differ
C15_Witness ==
    /\ pc = "returned"
    /\ trials >= 2
    /\ infected_counts[1] # infected_counts[2]

\* C16: a call with k > n or with an unknown strategy never returns a list
\* and never runs the engine.
C16_ConfigErrorBeforeRun ==
    (InExperiment /\ (arg_k > n \/ ~KnownStrategy)) =>
        (pc # "returned" /\ run = 0)

\* C17: a call with trials < 1 or with q outside [0, 1] never returns a list
\* and never runs the engine.
C17_TrialsAndThresholdRejected ==
    (InExperiment /\ (trials < 1 \/ q[1] < 0 \/ q[1] > q[2])) =>
        (pc # "returned" /\ run = 0)

\* ------------------------------------------------------ index checking
\* C18: a contagion_brd call whose S or W_nodes holds an index outside
\* 0..n-1 ends in IndexError and returns no result, and an add_edge call that
\* is given such an index ends in IndexError and leaves every adjacency list
\* as it was.
C18_OutOfRangeFails ==
    /\ [](((S \cup W_nodes) \ Nodes(n) # {}) =>
            /\ pc = "IndexError"
            /\ infected_nodes = <<>>
            /\ wise_nodes_final = <<>>)
    /\ [][(pc = "build" /\ pc' \in {"linked", "IndexError"}) =>
            (pc' = "IndexError" /\ adj' = adj)]_vars

====
